---- MODULE Spec2Model ----
(***************************************************************************)
(* Model of the SimCity 4 DLL plugin that disables the network             *)
(* construction sounds (DisableNetworkConstructionSoundsDllDirector.cpp).  *)
(*                                                                         *)
(* The host loads the DLL, the director is constructed (the logger is      *)
(* initialised and the header written), and the host calls OnStart, which  *)
(* reads the game version and, for version 641, calls OverwriteMemory to   *)
(* replace the byte at 0x6071FC with 0xEB.                                 *)
(***************************************************************************)
EXTENDS Integers, Sequences, FiniteSets, TLC

VARIABLES
    pc,           \* position of the single host thread
    caller,       \* who called OverwriteMemory (where it returns / unwinds to)
    hostVersion,  \* what SC4VersionDetection reports for the running game
    gameVersion,  \* the local of DisableNetworkConstructionAnimationSounds (<<>> before line 61)
    mem,          \* host memory around the patch target: address -> byte
    prot,         \* page protection: page -> protection constant
    stack,        \* frames of OverwriteMemory: [address, newValue, oldProtect]
    exc,          \* the exception in flight (<<>> when none)
    logLevel,     \* the level the logger was initialised with
    log,          \* the lines of the log file
    result,       \* what OnStart returned (<<>> before it returns)
    events        \* history: calls of OverwriteMemory, protection requests, writes

vars == <<pc, caller, hostVersion, gameVersion, mem, prot, stack, exc,
          logLevel, log, result, events>>

-----------------------------------------------------------------------------
(* Bounds of the model *)

\* versions VersionSpan below and above the required one are detected
VersionSpan == 2
\* bytes MemSpan below and above the patch target are modelled
MemSpan == 1
\* byte values 0..ByteSpan besides the original and the new opcode
ByteSpan == 0
\* how many times the direct-call scenario invokes OverwriteMemory
MaxCalls == 2

-----------------------------------------------------------------------------
(* Program constants *)

\* if (gameVersion == 641)
TargetVersion == 641
\* OverwriteMemory(0x6071FC, 0xEB): the address
PatchAddress == 6320636
\* OverwriteMemory(0x6071FC, 0xEB): the new byte, JMP rel8
NewByte == 235
\* Original instruction: 0x74 (JZ rel8)
OriginalByte == 116

\* uint16_t gameVersion: the versions the detection may report (0 = unknown)
Versions == {0} \cup ((TargetVersion - VersionSpan) .. (TargetVersion + VersionSpan))

Addrs == (PatchAddress - MemSpan) .. (PatchAddress + MemSpan)
ByteVals == {OriginalByte, NewByte} \cup (0 .. ByteSpan)
\* the memories of the direct-call scenario: any byte at the target t, one
\* fill byte around it
Memories(t) == {[a \in Addrs |-> IF a = t THEN b ELSE f] : b, f \in ByteVals}

\* the page VirtualProtect changes for a one-byte range starting at a
PageOf(a) == a \div 4096
Pages == {PageOf(a) : a \in Addrs}

ExecProts == {"PAGE_EXECUTE", "PAGE_EXECUTE_READ",
              "PAGE_EXECUTE_READWRITE", "PAGE_EXECUTE_WRITECOPY"}
NonExecProts == {"PAGE_NOACCESS", "PAGE_READONLY", "PAGE_READWRITE"}
AllProts == ExecProts \cup NonExecProts
Executable(p) == p \in ExecProts

\* GetLastError() values a failed VirtualProtect leaves
PlatformErrors == {"ERROR_INVALID_ADDRESS", "ERROR_ACCESS_DENIED"}

-----------------------------------------------------------------------------
(* Text formatting *)

\* "%d" of printf: the decimal digits of a non-negative int, most significant first
RECURSIVE Decimal(_)
Decimal(n) == IF n < 10 THEN <<n>> ELSE Append(Decimal(n \div 10), n % 10)

\* "%s" with e.what(): the text of a wil::ResultException names the platform error
What(e) == <<"wil::ResultException", e.code>>

HeaderLine == <<"SC4DisableNetworkConstructionSounds v", "PLUGIN_VERSION_STR">>
SuccessLine == <<"Disabled the network construction animation sounds.">>
FailedLine(e) ==
    <<"Failed to disable the network construction animation sounds: ">> \o What(e)
MismatchLine(v) ==
    <<"Unable to disable the network construction animation sounds. Requires ",
      "game version 641, found game version ">> \o Decimal(v) \o <<".">>

-----------------------------------------------------------------------------
(* The logger (Logger.h / Logger.cpp): a severity filter in front of the file *)

\* the order of the severities: Info below Error
LevelRank(level) == CASE level = "Info" -> 0 [] level = "Error" -> 1

\* Logger::WriteLine / WriteLineFormatted: the line is written when its severity
\* is at least the minimum severity the logger was initialised with
LoggerWriteLine(lg, minLevel, level, line) ==
    IF LevelRank(level) >= LevelRank(minLevel) THEN Append(lg, line) ELSE lg

\* Logger::WriteLogFileHeader: written whatever the level
LoggerWriteLogFileHeader(lg, line) == Append(lg, line)

\* Logger::Init(path, level, append = false): a fresh file
LoggerInit == <<>>

\* logger.Init(logFilePath, LogLevel::Error, false)
ConfiguredLogLevel == "Error"
\* logger.WriteLine(LogLevel::Info, "Disabled ...")
SuccessLevel == "Info"
\* logger.WriteLineFormatted(LogLevel::Error, "Failed ..." / "Unable ...")
FailureLevel == "Error"

-----------------------------------------------------------------------------
(* History *)

CallEvent(a, v) ==
    [op |-> "call", address |-> a, newValue |-> v, mem |-> mem, prot |-> prot]
ProtectEvent(a, p, ok, err) ==
    [op |-> "VirtualProtect", address |-> a, newProtect |-> p, ok |-> ok,
     error |-> IF ok THEN "ERROR_SUCCESS" ELSE err]
WriteEvent(a, v) == [op |-> "write", address |-> a, newValue |-> v]

EventsOf(kind) == {i \in DOMAIN events : events[i].op = kind}
Count(kind) == Cardinality(EventsOf(kind))
\* the index of the latest event of a kind (0 when none)
Last(kind) == IF EventsOf(kind) = {} THEN 0
              ELSE CHOOSE i \in EventsOf(kind) : \A j \in EventsOf(kind) : j <= i
First(kind) == IF EventsOf(kind) = {} THEN 0
               ELSE CHOOSE i \in EventsOf(kind) : \A j \in EventsOf(kind) : i <= j

-----------------------------------------------------------------------------
(* OverwriteMemory(address, newValue) *)

Frame(a, v) == [address |-> a, newValue |-> v, oldProtect |-> "uninitialized"]

\* mutants: a protection that cannot be written, one that cannot be executed
NewProtect_ExecuteRead == "PAGE_EXECUTE_READ"
NewProtect_ReadWrite == "PAGE_READWRITE"
\* the protection OverwriteMemory asks for
NewProtect == "PAGE_EXECUTE_READWRITE"

\* mutant: the BOOL VirtualProtect returns is ignored
ThrowIfWin32BoolFalse_Ignored(b) == FALSE
\* THROW_IF_WIN32_BOOL_FALSE(b): throws exactly when b is FALSE
ThrowIfWin32BoolFalse(b) == ~b

\* mutants: the store is missing; += instead of =; a 16-bit store
WriteByte_Missing(m, a, v) == m
WriteByte_Add(m, a, v) == [m EXCEPT ![a] = (m[a] + v) % 256]
WriteByte_Word(m, a, v) ==
    [x \in DOMAIN m |-> IF x = a THEN v ELSE IF x = a + 1 THEN 0 ELSE m[x]]
\* *((uint8_t*)address) = newValue
WriteByte(m, a, v) == [m EXCEPT ![a] = v]

\* VirtualProtect(address, sizeof(newValue), PAGE_EXECUTE_READWRITE, &oldProtect):
\* the platform grants or denies the change; on success the page of the byte gets
\* the new protection and oldProtect the previous one, on failure nothing changes
\* and the macro throws a wil::ResultException carrying the last error.
OM_VirtualProtect ==
    /\ pc = "om_protect"
    /\ \E ok \in BOOLEAN, err \in PlatformErrors :
         LET f == stack[1]
             pg == PageOf(f.address)
         IN  /\ events' = Append(events, ProtectEvent(f.address, NewProtect, ok, err))
             /\ prot' = IF ok THEN [prot EXCEPT ![pg] = NewProtect] ELSE prot
             /\ IF ThrowIfWin32BoolFalse(ok)
                  THEN /\ exc' = <<[type |-> "wil::ResultException", code |-> err]>>
                       /\ stack' = <<>>
                       /\ pc' = "om_thrown"
                  ELSE /\ exc' = exc
                       /\ stack' = IF ok THEN <<[f EXCEPT !.oldProtect = prot[pg]]>>
                                         ELSE stack
                       /\ pc' = "om_write"
    /\ UNCHANGED <<caller, hostVersion, gameVersion, mem, logLevel, log, result>>

\* the write, then the return to the caller
OM_Write ==
    /\ pc = "om_write"
    /\ LET f == stack[1]
       IN  /\ mem' = WriteByte(mem, f.address, f.newValue)
           /\ events' = Append(events, WriteEvent(f.address, f.newValue))
    /\ stack' = <<>>
    /\ pc' = "om_returned"
    /\ UNCHANGED <<caller, hostVersion, gameVersion, prot, exc, logLevel, log, result>>

-----------------------------------------------------------------------------
(* The startup hook *)

Plugin == "DisableNetworkConstructionAnimationSounds"

\* mutants: "at least" instead of "exactly"; the test inverted
ShouldPatch_AtLeast(v) == v >= TargetVersion
ShouldPatch_Inverted(v) == v # TargetVersion
\* if (gameVersion == 641)
ShouldPatch(v) == v = TargetVersion

\* mutant: a handler for another exception type
Catches_RuntimeError(e) == e.type \in {"std::runtime_error"}
\* catch (const std::exception& e): wil::ResultException derives from std::exception
Catches(e) == e.type \in {"std::exception", "wil::ResultException"}

\* the host's plugin-loading sequence calls OnStart once, after construction
HostCallsOnStart == pc = "host_loaded"

\* bool OnStart(cIGZCOM* pCOM): entry
OnStart ==
    /\ HostCallsOnStart
    /\ pc' = "get_version"
    /\ UNCHANGED <<caller, hostVersion, gameVersion, mem, prot, stack, exc,
                   logLevel, log, result, events>>

\* const uint16_t gameVersion = SC4VersionDetection::GetInstance().GetGameVersion();
GetGameVersion ==
    /\ pc = "get_version"
    /\ gameVersion' = <<hostVersion>>
    /\ pc' = "check_version"
    /\ UNCHANGED <<caller, hostVersion, mem, prot, stack, exc, logLevel, log,
                   result, events>>

\* if (gameVersion == 641) { try { OverwriteMemory(0x6071FC, 0xEB); ... } else ...
VersionGuard ==
    /\ pc = "check_version"
    /\ IF ShouldPatch(gameVersion[1])
         THEN /\ stack' = <<Frame(PatchAddress, NewByte)>>
              /\ events' = Append(events, CallEvent(PatchAddress, NewByte))
              /\ pc' = "om_protect"
         ELSE /\ pc' = "log_mismatch"
              /\ UNCHANGED <<stack, events>>
    /\ UNCHANGED <<caller, hostVersion, gameVersion, mem, prot, exc, logLevel,
                   log, result>>

\* logger.WriteLine(LogLevel::Info, "Disabled the network construction animation sounds.");
LogSuccess ==
    /\ pc = "om_returned"
    /\ caller = Plugin
    /\ log' = LoggerWriteLine(log, logLevel, SuccessLevel, SuccessLine)
    /\ pc' = "return"
    /\ UNCHANGED <<caller, hostVersion, gameVersion, mem, prot, stack, exc,
                   logLevel, result, events>>

\* catch (const std::exception& e) { logger.WriteLineFormatted(Error, "Failed ... %s", e.what()); }
\* an exception the handler does not match leaves OnStart
CatchException ==
    /\ pc = "om_thrown"
    /\ caller = Plugin
    /\ IF Catches(exc[1])
         THEN /\ log' = LoggerWriteLine(log, logLevel, FailureLevel, FailedLine(exc[1]))
              /\ exc' = <<>>
              /\ pc' = "return"
         ELSE /\ pc' = "propagated"
              /\ UNCHANGED <<log, exc>>
    /\ UNCHANGED <<caller, hostVersion, gameVersion, mem, prot, stack, logLevel,
                   result, events>>

\* else { logger.WriteLineFormatted(Error, "Unable ... found game version %d.", gameVersion); }
LogMismatch ==
    /\ pc = "log_mismatch"
    /\ log' = LoggerWriteLine(log, logLevel, FailureLevel, MismatchLine(gameVersion[1]))
    /\ pc' = "return"
    /\ UNCHANGED <<caller, hostVersion, gameVersion, mem, prot, stack, exc,
                   logLevel, result, events>>

\* return true;
OnStartReturn ==
    /\ pc = "return"
    /\ result' = <<TRUE>>
    /\ pc' = "done"
    /\ UNCHANGED <<caller, hostVersion, gameVersion, mem, prot, stack, exc,
                   logLevel, log, events>>

\* The state after the director's construction: the logger initialised at level
\* Error with a fresh file and the header written; the game's code page is
\* executable, its bytes whatever the running build holds.
Init ==
    /\ pc = "host_loaded"
    /\ caller = Plugin
    /\ hostVersion \in Versions
    /\ gameVersion = <<>>
    /\ mem \in [Addrs -> ByteVals]
    /\ prot \in [Pages -> ExecProts]
    /\ stack = <<>>
    /\ exc = <<>>
    /\ logLevel = ConfiguredLogLevel
    /\ log = LoggerWriteLogFileHeader(LoggerInit, HeaderLine)
    /\ result = <<>>
    /\ events = <<>>

Next ==
    \/ OnStart
    \/ GetGameVersion
    \/ VersionGuard
    \/ OM_VirtualProtect
    \/ OM_Write
    \/ LogSuccess
    \/ CatchException
    \/ LogMismatch
    \/ OnStartReturn

Spec == Init /\ [][Next]_vars

-----------------------------------------------------------------------------
(* OverwriteMemory called directly, MaxCalls times with the same arguments,    *)
(* from every memory and protection state                                      *)

Direct == "direct"

DirectInit ==
    /\ pc = "om_protect"
    /\ caller = Direct
    /\ hostVersion = TargetVersion
    /\ gameVersion = <<>>
    /\ prot \in [Pages -> AllProts]
    /\ \E a \in Addrs, v \in ByteVals :
         /\ mem \in Memories(a)
         /\ stack = <<Frame(a, v)>>
         /\ events = <<CallEvent(a, v)>>
    /\ exc = <<>>
    /\ logLevel = ConfiguredLogLevel
    /\ log = LoggerInit
    /\ result = <<>>

\* the next invocation, with the arguments of the first
DirectCallAgain ==
    /\ pc \in {"om_returned", "om_thrown"}
    /\ caller = Direct
    /\ Count("call") < MaxCalls
    /\ LET c == events[First("call")]
       IN  /\ stack' = <<Frame(c.address, c.newValue)>>
           /\ events' = Append(events, CallEvent(c.address, c.newValue))
    /\ exc' = <<>>
    /\ pc' = "om_protect"
    /\ UNCHANGED <<caller, hostVersion, gameVersion, mem, prot, logLevel, log, result>>

DirectDone ==
    /\ pc \in {"om_returned", "om_thrown"}
    /\ caller = Direct
    /\ Count("call") = MaxCalls
    /\ exc' = <<>>
    /\ pc' = "direct_done"
    /\ UNCHANGED <<caller, hostVersion, gameVersion, mem, prot, stack, logLevel,
                   log, result, events>>

DirectNext ==
    \/ OM_VirtualProtect
    \/ OM_Write
    \/ DirectCallAgain
    \/ DirectDone

DirectSpec == DirectInit /\ [][DirectNext]_vars

-----------------------------------------------------------------------------
(* Properties *)

\* the latest call of OverwriteMemory (its arguments, and memory and protection
\* at its entry), and the protection request made in it, if any
InCall == Last("call") > 0
TheCall == events[Last("call")]
Requested == Last("VirtualProtect") > Last("call")
TheRequest == events[Last("VirtualProtect")]
HookOver == pc \in {"return", "done"}
LogLines == {log[i] : i \in DOMAIN log}

\* C1: with a detected version other than 641 the hook never calls
\* OverwriteMemory, requests no protection change and writes no byte, and it
\* logs the error line that names the required version 641 and the detected
\* version (for 640: "... Requires game version 641, found game version 640.").
C1_MismatchSkipsPatch ==
    hostVersion # 641 =>
        /\ Count("call") = 0
        /\ Count("VirtualProtect") = 0
        /\ Count("write") = 0
        /\ stack = <<>>
        /\ HookOver =>
             /\ Len(log) = 2
             /\ log[2] = MismatchLine(hostVersion)
             /\ log[2][2] = "game version 641, found game version "
             /\ hostVersion = 640 =>
                  log[2] = <<"Unable to disable the network construction animation sounds. Requires ",
                             "game version 641, found game version ", 6, 4, 0, ".">>

C1_Witness ==
    /\ pc = "done"
    /\ hostVersion = 640
    /\ gameVersion = <<640>>
    /\ Len(log) = 2

\* C2: with detected version 641 the hook calls OverwriteMemory exactly once,
\* with address 0x6071FC and byte 0xEB; when the protection change succeeds the
\* byte at 0x6071FC is 0xEB when the hook returns, whatever it was before.
C2_PatchApplied ==
    hostVersion = 641 =>
        /\ Count("call") <= 1
        /\ \A i \in EventsOf("call") :
             events[i].address = 6320636 /\ events[i].newValue = 235
        /\ HookOver =>
             /\ Count("call") = 1
             /\ (Requested /\ TheRequest.ok) => mem[6320636] = 235

C2_Witness ==
    /\ pc = "done"
    /\ hostVersion = 641
    /\ Requested /\ TheRequest.ok
    /\ TheCall.mem[6320636] = 116
    /\ mem[6320636] = 235

\* C3: when the protection change fails the write is never executed: the memory
\* is as it was before the call, an exception carrying the platform error is
\* thrown, and the caller logs "Failed to disable ...: " followed by the error
\* text and does not log the success line.
C3_FailedProtectNoWrite ==
    (caller = Plugin /\ Requested /\ ~TheRequest.ok) =>
        /\ Count("write") = 0
        /\ mem = TheCall.mem
        /\ prot = TheCall.prot
        /\ pc # "om_write"
        /\ pc = "om_thrown" =>
             exc = <<[type |-> "wil::ResultException", code |-> TheRequest.error]>>
        /\ HookOver =>
             /\ log[Len(log)] =
                  <<"Failed to disable the network construction animation sounds: ",
                    "wil::ResultException", TheRequest.error>>
             /\ SuccessLine \notin LogLines

C3_Witness ==
    /\ pc = "done"
    /\ Requested /\ ~TheRequest.ok
    /\ TheRequest.error = "ERROR_ACCESS_DENIED"
    /\ Len(log) = 2

\* C4: for every detected version and every outcome of the protection change
\* OnStart runs to completion and returns true: no exception leaves OnStart,
\* and the hook can always take its next step until it has returned.
C4_OnStartReturnsTrue ==
    /\ pc # "propagated"
    /\ pc = "done" => (result = <<TRUE>> /\ exc = <<>> /\ stack = <<>>)
    /\ pc # "done" => (result = <<>> /\ ENABLED Next)

C4_Witness ==
    /\ pc = "done"
    /\ result = <<TRUE>>
    /\ Requested /\ ~TheRequest.ok

\* C5: after the header the log holds exactly one outcome line: the success
\* line iff the version is 641 and the protection change succeeded, the "Failed
\* to disable" line iff the version is 641 and it failed, the mismatch line iff
\* the version is not 641.
C5_OneOutcomeLine ==
    pc = "done" =>
        /\ Len(log) = 2
        /\ log[1] = HeaderLine
        /\ log[2] = SuccessLine <=> (hostVersion = 641 /\ Requested /\ TheRequest.ok)
        /\ log[2][1] = "Failed to disable the network construction animation sounds: "
             <=> (hostVersion = 641 /\ Requested /\ ~TheRequest.ok)
        /\ log[2] = MismatchLine(hostVersion) <=> hostVersion # 641

\* C6: the byte write to the patch target happens at most once in the life of
\* the process, and only when the detected version is exactly 641.
C6_WriteAtMostOnce ==
    /\ Count("write") <= 1
    /\ Count("write") = 1 => (hostVersion = 641 /\ gameVersion = <<641>>)
    /\ \A i \in EventsOf("write") : events[i].address = 6320636

C6_Witness ==
    /\ pc = "done"
    /\ Count("write") = 1

\* C7 as stated: after OverwriteMemory returns successfully the protection of
\* the page is again what it was before the call.
C7_ProtectionRestored ==
    pc = "om_returned" => prot = TheCall.prot

\* C7 as amended: the protection change is not reverted: the old protection is
\* saved in oldProtect and never restored, so after OverwriteMemory returns
\* successfully the page of the target is PAGE_EXECUTE_READWRITE whatever it
\* was before, the other pages are as before, and a page that was executable
\* before the call is executable throughout.
C7_ProtectionStaysWritable ==
    InCall =>
        LET pg == PageOf(TheCall.address)
        IN  /\ pc = "om_write" =>
                 /\ stack[1].oldProtect = TheCall.prot[pg]
                 /\ prot[pg] = "PAGE_EXECUTE_READWRITE"
            /\ pc = "om_returned" =>
                 prot = [TheCall.prot EXCEPT ![pg] = "PAGE_EXECUTE_READWRITE"]
            /\ Executable(TheCall.prot[pg]) => Executable(prot[pg])

C7_Witness ==
    /\ pc = "om_returned"
    /\ TheCall.prot[PageOf(TheCall.address)] = "PAGE_EXECUTE_READ"
    /\ prot[PageOf(TheCall.address)] = "PAGE_EXECUTE_READWRITE"

\* C8: a target page that is executable before the call is executable in every
\* state during and after OverwriteMemory: execute-read-write once the
\* protection change has succeeded, unchanged when it has failed.
C8_AlwaysExecutable ==
    (InCall /\ TheCall.prot[PageOf(TheCall.address)] \in
        {"PAGE_EXECUTE", "PAGE_EXECUTE_READ", "PAGE_EXECUTE_READWRITE",
         "PAGE_EXECUTE_WRITECOPY"}) =>
        LET pg == PageOf(TheCall.address)
        IN  /\ prot[pg] \in {"PAGE_EXECUTE", "PAGE_EXECUTE_READ",
                             "PAGE_EXECUTE_READWRITE", "PAGE_EXECUTE_WRITECOPY"}
            /\ ~Requested => prot = TheCall.prot
            /\ (Requested /\ TheRequest.ok) => prot[pg] = "PAGE_EXECUTE_READWRITE"
            /\ (Requested /\ ~TheRequest.ok) => prot = TheCall.prot

C8_Witness ==
    /\ pc = "direct_done"
    /\ ~events[First("VirtualProtect")].ok
    /\ Requested /\ TheRequest.ok
    /\ TheCall.prot[PageOf(TheCall.address)] = "PAGE_EXECUTE_READ"
    /\ prot[PageOf(TheCall.address)] = "PAGE_EXECUTE_READWRITE"

\* C9: OverwriteMemory is idempotent: once one invocation has succeeded, every
\* further invocation with the same arguments, whether its protection change
\* succeeds or fails, leaves memory and protection as that invocation left
\* them; an invocation whose protection change fails changes nothing, so the
\* first successful one starts from the initial state.
C9_Idempotent ==
    /\ \A i \in EventsOf("call") :
         ((\E w \in EventsOf("write") : w < i) /\ pc \in {"om_returned", "om_thrown", "direct_done"})
            => (mem = events[i].mem /\ prot = events[i].prot)
    /\ \A i \in EventsOf("call") :
         (\A w \in EventsOf("write") : w > i) =>
            (events[i].mem = events[First("call")].mem /\ events[i].prot = events[First("call")].prot)

C9_Witness ==
    /\ pc = "direct_done"
    /\ Count("write") = 2
    /\ events[First("call")].mem[TheCall.address] # TheCall.newValue
    /\ events[First("call")].prot[PageOf(TheCall.address)] = "PAGE_READONLY"
    /\ mem = TheCall.mem
    /\ prot = TheCall.prot

\* C10: a successful OverwriteMemory(address, newValue) writes exactly one
\* byte: the byte at address becomes newValue and every other byte keeps its
\* value; reading the game version changes neither memory nor protection.
C10_OneByteWritten ==
    /\ [](pc = "om_returned" =>
            \A a \in Addrs :
               mem[a] = IF a = TheCall.address THEN TheCall.newValue ELSE TheCall.mem[a])
    /\ [][pc # "om_write" => mem' = mem]_vars
    /\ [][pc = "get_version" => (mem' = mem /\ prot' = prot /\ events' = events)]_vars

C10_Witness ==
    /\ pc = "om_returned"
    /\ caller = Plugin
    /\ TheCall.mem[6320636] = 116
    /\ mem[6320636] = 235
    /\ mem[6320637] = 116
    /\ mem[6320635] = 0

====
